---- MODULE Spec2Model ----
(***************************************************************************)
(* Client-side capture, loop-detection and batched-transport engine of     *)
(* console-bridge-sveltekit (src/src/lib/client.ts, the module that starts *)
(* at line 424).  One action per exported function, wrapper call, timer    *)
(* callback and promise settlement; time is in milliseconds.               *)
(***************************************************************************)
EXTENDS Integers, Sequences, FiniteSets, Bags, TLC

VARIABLES
    sessionId,              \* let sessionId
    options,                \* let options: <<>> is null, <<o>> the resolved options
    isSending,              \* let isSending
    logQueue,               \* let logQueue
    batchTimer,             \* let batchTimer: NoTimer, or the time the timeout is due
    isInitialized,          \* let isInitialized
    networkPatched,         \* let networkPatched
    errorListenersAttached, \* let errorListenersAttached
    originalFetch,          \* let originalFetch: "null" or "bound"
    originalXhrOpen,        \* let originalXhrOpen: "null" or "native"
    originalXhrSend,        \* let originalXhrSend: "null" or "native"
    windowFetch,            \* window.fetch: "native", "bound" or "wrapper"
    xhrOpen,                \* XMLHttpRequest.prototype.open: "native" or "wrapper"
    xhrSend,                \* XMLHttpRequest.prototype.send: "native" or "wrapper"
    consoleFn,              \* console[level]: "native" or "wrapper"
    windowListeners,        \* bag of the listener kinds registered on window
    recentMessages,         \* Map recentMessages, in insertion order: Seq of [key, ts]
    suppressedKeys,         \* Set suppressedKeys
    unsuppressTimers,       \* bag of the pending timeouts of scheduleUnsuppress
    inflight,               \* bag of the delivery requests that have not settled
    netCalls,               \* bag of the wrapped fetch / XHR calls that have not completed
    now,                    \* Date.now() / performance.now()
    nextId,                 \* identity of the next LogEntry object built
    lastCall,               \* observation: the last wrapper call, original's and wrapper's outcome
    lastLoop,               \* observation: the last capture step (checkMessageLoop call)
    emitted,                \* observation: per key, when its candidates of the last
                            \* loopWindow ms were built
    summaryCount,           \* observation: bag of the keys of the LOOP DETECTED entries
                            \* enqueued so far
    lastFailed,             \* observation: the entries of the last delivery request
                            \* that failed
    lastInit                \* observation: the userOptions of the initConsolebridge
                            \* call of the session, <<>> when there is none

vars == <<sessionId, options, isSending, logQueue, batchTimer, isInitialized,
          networkPatched, errorListenersAttached, originalFetch, originalXhrOpen,
          originalXhrSend, windowFetch, xhrOpen, xhrSend, consoleFn, windowListeners,
          recentMessages, suppressedKeys, unsuppressTimers, inflight, netCalls, now,
          nextId, lastCall, lastLoop, emitted, summaryCount, lastFailed, lastInit>>

patchVars == <<networkPatched, errorListenersAttached, originalFetch, originalXhrOpen,
               originalXhrSend, windowFetch, xhrOpen, xhrSend, consoleFn,
               windowListeners, isInitialized>>
loopVars == <<recentMessages, suppressedKeys, unsuppressTimers>>
obsVars == <<lastCall, lastLoop, emitted, summaryCount>>
histVars == <<lastFailed, lastInit>>

-----------------------------------------------------------------------------
(* Bounds of the model.                                                    *)

MaxSession == 3      \* initConsolebridge / restoreConsole calls in a run
MaxTicks == 4        \* the clock runs to 50 * MaxTicks ms
MaxEvents == 4       \* LogEntry objects built in a run of Spec
MaxNetEvents == 2    \* LogEntry objects built in a run of SpecNet
MaxLoopEvents == 6   \* LogEntry objects built in a run of SpecLoop
MaxBurstEvents == 13 \* LogEntry objects built in a run of SpecBurst
MaxQueueEvents == 22 \* LogEntry objects built in a run of SpecQueue
MaxQueueSessions == 2 \* initConsolebridge / restoreConsole calls in a run of SpecQueue
MaxNetCalls == 2     \* wrapped network calls in progress at once
MaxNetPending == 1   \* wrapped network calls in progress at once in a run of SpecNet
MaxStatusEvents == 3 \* LogEntry objects built in a run of SpecStatus
MaxFailEvents == 5   \* LogEntry objects built in a run of SpecFail
MaxOrderEvents == 3  \* LogEntry objects built in a run of SpecOrder
MaxQuietEvents == 3  \* LogEntry objects built in a run of SpecQuiet
MaxQuietSessions == 2 \* initConsolebridge / restoreConsole calls in a run of SpecQuiet
MaxInstallEvents == 3 \* LogEntry objects built in a run of SpecInstall
TableFill == 99      \* keys the host of SpecTable puts in the table before anything else
MaxTableEvents == 104 \* LogEntry objects built in a run of SpecTable
MaxTableSessions == 2 \* initConsolebridge calls in a run of SpecTable
MaxBatchEvents == 5  \* LogEntry objects built in a run of SpecBatch
MaxBatchSessions == 2 \* initConsolebridge / restoreConsole calls in a run of SpecBatch
MaxProgressEvents == 4 \* LogEntry objects built in a run of SpecProgress

-----------------------------------------------------------------------------
(* Values.                                                                 *)

NoTimer == 0 - 1
Levels == {"log", "warn", "error", "info", "debug"}
browser == TRUE
dev == TRUE

Min2(a, b) == IF a < b THEN a ELSE b
Max2(a, b) == IF a > b THEN a ELSE b

\* A raw numeric option as the caller passes it: a finite number num/den, NaN, an
\* infinity, or no value at all.
Num(n) == [kind |-> "num", num |-> n, den |-> 1]
Frac(n, d) == [kind |-> "num", num |-> n, den |-> d]
NaN == [kind |-> "nan", num |-> 0, den |-> 1]
PosInfinity == [kind |-> "inf", num |-> 1, den |-> 1]
NegInfinity == [kind |-> "inf", num |-> 0 - 1, den |-> 1]
Missing == [kind |-> "undefined", num |-> 0, den |-> 1]

DefaultBatchSize == 10
DefaultBatchDelay == 100
DefaultNetworkBodyLimit == 500
DefaultLoopThreshold == 10
DefaultLoopWindow == 5000
DefaultMaxQueueSize == 200
MaxTrackedKeys == 100
Endpoint == "/api/console-bridge"

\* The user options of a call initConsolebridge({}): every field at its default.
DEFAULT_OPTIONS ==
    [endpoint |-> Endpoint,
     batchSize |-> DefaultBatchSize,
     batchDelay |-> DefaultBatchDelay,
     levels |-> Levels,
     captureNetwork |-> TRUE,
     captureErrors |-> TRUE,
     networkBodyLimit |-> DefaultNetworkBodyLimit,
     networkIgnore |-> {},
     networkInclude |-> {},
     loopThreshold |-> Missing,
     loopWindow |-> Missing,
     maxQueueSize |-> Missing]

\* Number.isFinite(v) ? Math.min(max, Math.max(min, Math.floor(v))) : fallback
safeIntNoMin(v, min, max, fallback) ==
    IF v.kind = "num" THEN Min2(max, v.num \div v.den) ELSE fallback

safeIntNoMax(v, min, max, fallback) ==
    IF v.kind = "num" THEN Max2(min, v.num \div v.den) ELSE fallback

safeInt(v, min, max, fallback) ==
    IF v.kind = "num" THEN Min2(max, Max2(min, v.num \div v.den)) ELSE fallback

\* The options initConsolebridge stores: the merge with the defaults, the three
\* loop / queue numbers clamped.
resolveOptions(u) ==
    [u EXCEPT !.loopThreshold = safeInt(u.loopThreshold, 2, 1000, DefaultLoopThreshold),
              !.loopWindow = safeInt(u.loopWindow, 100, 60000, DefaultLoopWindow),
              !.maxQueueSize = safeInt(u.maxQueueSize, 10, 10000, DefaultMaxQueueSize)]

-----------------------------------------------------------------------------
(* Sequences and the insertion-ordered Map.                                *)

\* Array.prototype.splice(0, n): what is left.
Drop(s, n) == SubSeq(s, Min2(Max2(n, 0), Len(s)) + 1, Len(s))
\* Array.prototype.splice(0, n): what is removed.
Take(s, n) == SubSeq(s, 1, Min2(Max2(n, 0), Len(s)))

RECURSIVE Filter(_, _)
\* ts.filter((t) => t > bound)
Filter(s, bound) ==
    IF s = <<>> THEN <<>>
    ELSE IF Head(s) > bound THEN <<Head(s)>> \o Filter(Tail(s), bound)
    ELSE Filter(Tail(s), bound)

RECURSIVE PruneOld(_, _)
\* while (timestamps.length > 0 && timestamps[0] < cutoff) timestamps.shift()
PruneOld(s, cutoff) ==
    IF s # <<>> /\ Head(s) < cutoff THEN PruneOld(Tail(s), cutoff) ELSE s

rmHas(rm, k) == \E i \in 1..Len(rm) : rm[i].key = k
rmIndex(rm, k) == CHOOSE i \in 1..Len(rm) : rm[i].key = k
rmGet(rm, k) == rm[rmIndex(rm, k)].ts
\* Map.set: an existing key keeps its place, a new key goes last.
rmSet(rm, k, ts) ==
    IF rmHas(rm, k) THEN [rm EXCEPT ![rmIndex(rm, k)].ts = ts]
    ELSE Append(rm, [key |-> k, ts |-> ts])
\* Map.delete
rmDelete(rm, k) ==
    IF rmHas(rm, k)
    THEN SubSeq(rm, 1, rmIndex(rm, k) - 1) \o SubSeq(rm, rmIndex(rm, k) + 1, Len(rm))
    ELSE rm

-----------------------------------------------------------------------------
(* Network filter and severity.                                            *)

\* A pattern of networkIgnore / networkInclude is a URL it matches.
isNetworkTracked(o, resolved) ==
    IF o = <<>> THEN FALSE
    ELSE IF resolved = o[1].endpoint THEN FALSE
    ELSE IF resolved \in o[1].networkIgnore THEN FALSE
    ELSE IF o[1].networkInclude # {} THEN resolved \in o[1].networkInclude
    ELSE TRUE

getNetworkLevelNoWarn(status) ==
    IF status = 0 \/ status >= 500 THEN "error" ELSE "network"

getNetworkLevel(status) ==
    IF status = 0 \/ status >= 500 THEN "error"
    ELSE IF status >= 400 THEN "warn"
    ELSE "network"

\* The identity key of an entry; <<>> is the empty string.
getLoopKey(entry) ==
    IF entry.kind = "network" THEN <<entry.method, entry.url, entry.level>>
    ELSE entry.first

-----------------------------------------------------------------------------
(* Outbound queue.                                                         *)

\* setTimeout treats a negative delay as 0.
scheduleBatchRestart(o, bt, t) ==
    IF o = <<>> THEN bt ELSE t + Max2(0, o[1].batchDelay)

scheduleBatch(o, bt, t) ==
    IF o = <<>> \/ bt # NoTimer THEN bt ELSE t + Max2(0, o[1].batchDelay)

\* Math.max(1, Math.floor(options.maxQueueSize * 0.1))
dropCountOne(o) == 1

dropCount(o) == Max2(1, o[1].maxQueueSize \div 10)

queueEntry(o, q, bt, t, entry) ==
    IF ~(dev /\ browser) \/ o = <<>> THEN [q |-> q, bt |-> bt]
    ELSE [q |-> Append(IF Len(q) >= o[1].maxQueueSize THEN Drop(q, dropCount(o)) ELSE q,
                       entry),
          bt |-> scheduleBatch(o, bt, t)]

-----------------------------------------------------------------------------
(* Loop detector.                                                          *)

\* The timeout scheduleUnsuppress sets: the closure's loopWindow, threshold and
\* currentSession, and the time it is due.
scheduleUnsuppress(o, tm, key, t, sid) ==
    IF o = <<>> THEN tm
    ELSE tm (+) SetToBag({[key |-> key,
                           loopWindow |-> o[1].loopWindow,
                           threshold |-> o[1].loopThreshold,
                           session |-> sid,
                           fireAt |-> t + o[1].loopWindow]})

summaryEntry(key, id) ==
    [kind |-> "console", level |-> "warn", first |-> <<"LOOP DETECTED">>, of |-> key,
     id |-> id, method |-> "", url |-> "", status |-> 0, json |-> "ok"]

\* suppressedKeys.has(key)
alreadySuppressedNever(sk, key) == FALSE

alreadySuppressed(sk, key) == key \in sk

\* recentMessages.size >= 100
tableFullNever(rm) == FALSE

tableFull(rm) == Len(rm) >= MaxTrackedKeys

\* checkMessageLoop(entry) on the state (rm, sk, tm, q, bt) at time t in session
\* sid: the returned boolean and the state it leaves.
checkMessageLoop(o, rm, sk, tm, q, bt, t, sid, entry, sumId) ==
    LET same == [suppress |-> FALSE, rm |-> rm, sk |-> sk, tm |-> tm, q |-> q, bt |-> bt,
                 summary |-> FALSE]
        key == getLoopKey(entry)
    IN
    IF o = <<>> THEN same
    ELSE IF key = <<>> THEN same
    ELSE
      LET loopWindow == o[1].loopWindow
          threshold == o[1].loopThreshold
          known == rmHas(rm, key)
          evict == ~known /\ tableFull(rm)
          rm1 == IF known THEN rm
                 ELSE rmSet(IF evict THEN Tail(rm) ELSE rm, key, <<>>)
          sk1 == IF evict THEN sk \ {rm[1].key} ELSE sk
          cutoff == t - loopWindow
          pushed == Append(PruneOld(rmGet(rm1, key), cutoff), t)
          capped == IF Len(pushed) > threshold * 2
                    THEN Drop(pushed, Len(pushed) - threshold)
                    ELSE pushed
          rm2 == rmSet(rm1, key, capped)
      IN
      IF Len(capped) >= threshold
      THEN IF ~alreadySuppressed(sk1, key)
           THEN LET qe == queueEntry(o, q, bt, t, summaryEntry(key, sumId))
                IN [suppress |-> TRUE, rm |-> rm2, sk |-> sk1 \cup {key},
                    tm |-> scheduleUnsuppress(o, tm, key, t, sid),
                    q |-> qe.q, bt |-> qe.bt, summary |-> TRUE]
           ELSE [suppress |-> TRUE, rm |-> rm2, sk |-> sk1, tm |-> tm, q |-> q, bt |-> bt,
                 summary |-> FALSE]
      ELSE [suppress |-> FALSE, rm |-> rm2,
            sk |-> IF alreadySuppressed(sk1, key) THEN sk1 \ {key} ELSE sk1,
            tm |-> tm, q |-> q, bt |-> bt, summary |-> FALSE]

-----------------------------------------------------------------------------
(* Entries.  first is the stringified first argument (<<>> when it is       *)
(* undefined, null, the empty string or a value JSON.stringify throws on);  *)
(* id tells LogEntry objects apart; json tells what JSON.stringify of the   *)
(* entry does.                                                             *)

consoleEntry(level, arg, id) ==
    [kind |-> "console", level |-> level, first |-> arg.first, of |-> <<>>, id |-> id,
     method |-> "", url |-> "", status |-> 0,
     json |-> IF arg.cls = "circular" THEN "throws" ELSE "ok"]

networkEntry(method, url, status, level, id) ==
    [kind |-> "network", level |-> level, first |-> <<method, url>>, of |-> <<>>,
     id |-> id, method |-> method, url |-> url, status |-> status, json |-> "ok"]

errorEntry(message, id) ==
    [kind |-> "error", level |-> "error", first |-> <<message>>, of |-> <<>>, id |-> id,
     method |-> "", url |-> "", status |-> 0, json |-> "ok"]

\* A wrapped network call in progress.  session is the value sessionId had when
\* the call started: the code keeps no such value, it is recorded to tell what a
\* completion after a session change does.  arrived numbers the responses whose
\* body is being read in the order the original fetch resolved with them, 0 before.
fetchCall(method, url, sid) ==
    [type |-> "fetch", stage |-> "original", method |-> method, url |-> url,
     session |-> sid, status |-> 0, listener |-> TRUE, arrived |-> 0]

xhrCall(method, url, sid) ==
    [type |-> "xhr", stage |-> "opened", method |-> method, url |-> url,
     session |-> sid, status |-> 0, listener |-> FALSE, arrived |-> 0]

-----------------------------------------------------------------------------
(* State after the module is loaded.                                       *)

NoCall == [prim |-> "none", orig |-> "none", result |-> "none"]
NoLoop == [called |-> FALSE, active |-> FALSE, key |-> <<>>, known |-> FALSE,
           suppress |-> FALSE, queued |-> FALSE, inWindow |-> 0, sinceCutoff |-> 0]

Init ==
    /\ sessionId = 0
    /\ options = <<>>
    /\ isSending = FALSE
    /\ logQueue = <<>>
    /\ batchTimer = NoTimer
    /\ isInitialized = FALSE
    /\ networkPatched = FALSE
    /\ errorListenersAttached = FALSE
    /\ originalFetch = "null"
    /\ originalXhrOpen = "null"
    /\ originalXhrSend = "null"
    /\ windowFetch = "native"
    /\ xhrOpen = "native"
    /\ xhrSend = "native"
    /\ consoleFn = [l \in Levels |-> "native"]
    /\ windowListeners = EmptyBag
    /\ recentMessages = <<>>
    /\ suppressedKeys = {}
    /\ unsuppressTimers = EmptyBag
    /\ inflight = EmptyBag
    /\ netCalls = EmptyBag
    /\ now = 0
    /\ nextId = 1
    /\ lastCall = NoCall
    /\ lastLoop = NoLoop
    /\ emitted = <<>>
    /\ summaryCount = EmptyBag
    /\ lastFailed = <<>>
    /\ lastInit = <<>>

-----------------------------------------------------------------------------
(* The capture step every wrapper and listener ends with:                  *)
(*     if (!checkMessageLoop(entry)) queueEntry(entry)                     *)
(* entry has id nextId; a LOOP DETECTED entry built on the way gets the    *)
(* next one.  fin tells that the step goes on with the .finally callback   *)
(* of sendBatch (isSending = false; if the queue is not empty,             *)
(* scheduleBatch()).  q and bt are the queue and the batch timer the step   *)
(* starts from.                                                            *)

\* .finally of sendBatch: if (logQueue.length > 0) scheduleBatch()
finallyNoReschedule(o, q, bt, t) == bt

finallyReschedule(o, q, bt, t) == IF Len(q) > 0 THEN scheduleBatch(o, bt, t) ELSE bt

CaptureFrom(entry, q, bt, fin) ==
    LET r == checkMessageLoop(options, recentMessages, suppressedKeys, unsuppressTimers,
                              q, bt, now, sessionId, entry, nextId + 1)
        qe == IF r.suppress THEN [q |-> r.q, bt |-> r.bt]
              ELSE queueEntry(options, r.q, r.bt, now, entry)
        key == getLoopKey(entry)
        checked == options # <<>> /\ key # <<>>
        seen == IF rmHas(emitted, key) THEN rmGet(emitted, key) ELSE <<>>
        times == IF checked
                 THEN Append(PruneOld(seen, now - options[1].loopWindow), now)
                 ELSE seen
    IN
    /\ recentMessages' = r.rm
    /\ suppressedKeys' = r.sk
    /\ unsuppressTimers' = r.tm
    /\ logQueue' = qe.q
    /\ batchTimer' = IF fin THEN finallyReschedule(options, qe.q, qe.bt, now) ELSE qe.bt
    /\ nextId' = nextId + (IF r.summary THEN 2 ELSE 1)
    /\ emitted' = IF checked THEN rmSet(emitted, key, times) ELSE emitted
    /\ lastLoop' = [called |-> TRUE,
                    active |-> options # <<>>,
                    key |-> key,
                    known |-> rmHas(recentMessages, key),
                    suppress |-> r.suppress,
                    queued |-> \E i \in 1..Len(qe.q) : qe.q[i] = entry,
                    inWindow |-> IF checked
                                 THEN Len(Filter(times, now - options[1].loopWindow))
                                 ELSE 0,
                    sinceCutoff |-> IF checked THEN Len(times) ELSE 0]
    /\ summaryCount' = IF \E i \in 1..Len(qe.q) : qe.q[i] = summaryEntry(key, nextId + 1)
                       THEN summaryCount (+) SetToBag({key})
                       ELSE summaryCount

CaptureThen(entry, fin) == CaptureFrom(entry, logQueue, batchTimer, fin)

Capture(entry) == CaptureThen(entry, FALSE)

-----------------------------------------------------------------------------
(* Session lifecycle.                                                      *)

\* clearTimeout(batchTimer); batchTimer = null
clearTimeoutKeep(bt) == bt

clearTimeout(bt) == NoTimer

\* if (networkPatched) return / if (errorListenersAttached) return
alreadyInstalledNever(flag) == FALSE

alreadyInstalled(flag) == flag

\* window.fetch.bind(window)
bindWindow(f) == IF f = "wrapper" THEN "boundWrapper" ELSE "bound"

\* if (!original) original = current
snapshot(original, current) == IF original # "null" THEN original ELSE current

\* initConsolebridge(userOptions)
InitConsolebridge(u) ==
    /\ browser /\ dev
    /\ sessionId < MaxSession
    /\ sessionId' = sessionId + 1
    /\ options' = <<resolveOptions(u)>>
    /\ consoleFn' = [l \in Levels |-> IF l \in u.levels THEN "wrapper" ELSE consoleFn[l]]
    /\ IF u.captureNetwork
       THEN \* patchNetwork()
            IF alreadyInstalled(networkPatched)
            THEN UNCHANGED <<networkPatched, originalFetch, originalXhrOpen,
                             originalXhrSend, windowFetch, xhrOpen, xhrSend>>
            ELSE /\ networkPatched' = TRUE
                 /\ originalFetch' = snapshot(originalFetch, bindWindow(windowFetch))
                 /\ originalXhrOpen' = snapshot(originalXhrOpen, xhrOpen)
                 /\ originalXhrSend' = snapshot(originalXhrSend, xhrSend)
                 /\ windowFetch' = "wrapper"
                 /\ xhrOpen' = "wrapper"
                 /\ xhrSend' = "wrapper"
       ELSE \* restoreNetwork()
            IF ~networkPatched
            THEN UNCHANGED <<networkPatched, originalFetch, originalXhrOpen,
                             originalXhrSend, windowFetch, xhrOpen, xhrSend>>
            ELSE /\ networkPatched' = FALSE
                 /\ windowFetch' = IF originalFetch # "null" THEN originalFetch
                                   ELSE windowFetch
                 /\ xhrOpen' = IF originalXhrOpen # "null" THEN originalXhrOpen ELSE xhrOpen
                 /\ xhrSend' = IF originalXhrSend # "null" THEN originalXhrSend ELSE xhrSend
                 /\ UNCHANGED <<originalFetch, originalXhrOpen, originalXhrSend>>
    /\ IF u.captureErrors
       THEN \* attachErrorListeners()
            IF alreadyInstalled(errorListenersAttached)
            THEN UNCHANGED <<errorListenersAttached, windowListeners>>
            ELSE /\ errorListenersAttached' = TRUE
                 /\ windowListeners' =
                        windowListeners (+) SetToBag({"error", "unhandledrejection"})
       ELSE \* detachErrorListeners()
            IF ~errorListenersAttached
            THEN UNCHANGED <<errorListenersAttached, windowListeners>>
            ELSE /\ errorListenersAttached' = FALSE
                 /\ windowListeners' =
                        windowListeners (-) SetToBag({"error", "unhandledrejection"})
    /\ isInitialized' = TRUE
    /\ lastInit' = <<u>>
    /\ UNCHANGED <<isSending, logQueue, batchTimer, loopVars, inflight, netCalls, now,
                   nextId, obsVars, lastFailed>>

\* restoreConsole()
RestoreConsole ==
    /\ browser
    /\ sessionId < MaxSession
    /\ sessionId' = sessionId + 1
    /\ consoleFn' = [l \in Levels |-> "native"]
    /\ IF ~networkPatched
       THEN UNCHANGED <<networkPatched, windowFetch, xhrOpen, xhrSend>>
       ELSE /\ networkPatched' = FALSE
            /\ windowFetch' = IF originalFetch # "null" THEN originalFetch ELSE windowFetch
            /\ xhrOpen' = IF originalXhrOpen # "null" THEN originalXhrOpen ELSE xhrOpen
            /\ xhrSend' = IF originalXhrSend # "null" THEN originalXhrSend ELSE xhrSend
    /\ IF ~errorListenersAttached
       THEN UNCHANGED <<errorListenersAttached, windowListeners>>
       ELSE /\ errorListenersAttached' = FALSE
            /\ windowListeners' =
                   windowListeners (-) SetToBag({"error", "unhandledrejection"})
    /\ recentMessages' = <<>>
    /\ suppressedKeys' = {}
    /\ logQueue' = <<>>
    /\ isSending' = FALSE
    /\ batchTimer' = clearTimeout(batchTimer)
    /\ options' = <<>>
    /\ isInitialized' = FALSE
    /\ emitted' = <<>>
    /\ lastInit' = <<>>
    /\ UNCHANGED <<originalFetch, originalXhrOpen, originalXhrSend, unsuppressTimers,
                   inflight, netCalls, now, nextId, lastCall, lastLoop, summaryCount,
                   lastFailed>>

-----------------------------------------------------------------------------
(* Console wrappers.                                                       *)

\* The function createInterceptor(level) returns, called with first argument arg;
\* orig is what the original console function does with it.
ConsoleCall(level, arg, orig) ==
    /\ consoleFn[level] = "wrapper"
    /\ IF orig = "throw"
       THEN /\ lastCall' = [prim |-> "console", orig |-> "throw", result |-> "throw"]
            /\ UNCHANGED <<logQueue, batchTimer, loopVars, nextId, lastLoop, emitted,
                           summaryCount>>
       ELSE IF dev /\ browser /\ options # <<>> /\ level \in options[1].levels
       THEN IF level = "error" /\ arg.cls = "errorBadStack"
            THEN \* error.stack is truthy and has no slice method
                 /\ lastCall' = [prim |-> "console", orig |-> "return",
                                 result |-> "TypeError"]
                 /\ UNCHANGED <<logQueue, batchTimer, loopVars, nextId, lastLoop, emitted,
                                summaryCount>>
            ELSE /\ Capture(consoleEntry(level, arg, nextId))
                 /\ lastCall' = [prim |-> "console", orig |-> "return",
                                 result |-> "return"]
       ELSE /\ lastCall' = [prim |-> "console", orig |-> "return", result |-> "return"]
            /\ UNCHANGED <<logQueue, batchTimer, loopVars, nextId, lastLoop, emitted,
                           summaryCount>>
    /\ UNCHANGED <<sessionId, options, isSending, patchVars, inflight, netCalls, now,
                   histVars>>

-----------------------------------------------------------------------------
(* Transport.                                                              *)

\* logQueue.splice(0, options.batchSize): the batch.
sendBatchTakeAll(q, batchSize) == q

sendBatchTake(q, batchSize) == Take(q, batchSize)

\* JSON.stringify(batch.length === 1 ? batch[0] : { batch })
requestBody(batch) ==
    IF Len(batch) = 1 THEN [form |-> "single", entries |-> batch]
    ELSE [form |-> "batch", entries |-> batch]

\* JSON.stringify throws a TypeError on a circular structure or a BigInt.
stringifyThrows(batch) == \E i \in 1..Len(batch) : batch[i].json = "throws"

\* const sender = originalFetch ?? fetch
senderGlobalFetch == windowFetch

sender == IF originalFetch # "null" THEN originalFetch ELSE windowFetch

\* The callback of scheduleBatch's timeout: batchTimer = null; sendBatch()
BatchTimerFires ==
    /\ batchTimer # NoTimer
    /\ now >= batchTimer
    /\ IF options = <<>> \/ isSending \/ Len(logQueue) = 0
       THEN /\ batchTimer' = NoTimer
            /\ UNCHANGED <<isSending, logQueue, inflight, netCalls, loopVars, nextId,
                           lastLoop, emitted, summaryCount>>
       ELSE LET batch == sendBatchTake(logQueue, options[1].batchSize)
                rest == Drop(logQueue, Len(batch))
                tracked == sender = "wrapper"
                           /\ isNetworkTracked(options, options[1].endpoint)
            IN /\ isSending' = TRUE
               /\ IF stringifyThrows(batch)
                  THEN \* no request is made; the exception leaves the timer callback
                       \* and window dispatches "error"
                       /\ UNCHANGED <<inflight, netCalls>>
                       /\ IF BagIn("error", windowListeners)
                          THEN CaptureFrom(errorEntry("Uncaught TypeError", nextId), rest,
                                           NoTimer, FALSE)
                          ELSE /\ logQueue' = rest
                               /\ batchTimer' = NoTimer
                               /\ UNCHANGED <<loopVars, nextId, lastLoop, emitted,
                                              summaryCount>>
                  ELSE /\ logQueue' = rest
                       /\ batchTimer' = NoTimer
                       /\ inflight' = inflight (+) SetToBag({[session |-> sessionId,
                                                              body |-> requestBody(batch),
                                                              via |-> sender,
                                                              tracked |-> tracked]})
                       /\ netCalls' = IF tracked
                                       THEN netCalls (+) SetToBag({fetchCall("POST",
                                                                  options[1].endpoint,
                                                                  sessionId)})
                                       ELSE netCalls
                       /\ UNCHANGED <<loopVars, nextId, lastLoop, emitted, summaryCount>>
    /\ UNCHANGED <<sessionId, options, patchVars, now, lastCall, histVars>>

\* The console functions saved when the module is loaded.
originalConsole == [l \in Levels |-> "native"]

\* The function the .catch callback of sendBatch reports a failure with.
failureReporterConsole == consoleFn["error"]

failureReporter == originalConsole["error"]

FailureReport == [first |-> <<"[Console Bridge] Failed to send logs:">>, cls |-> "plain"]

\* The delivery request d settles: .catch when it failed (a report through a
\* wrapper of createInterceptor is captured as any console.error call is), then
\* .finally.
SettleDelivery(d, ok) ==
    LET captured == /\ ~ok /\ failureReporter = "wrapper"
                    /\ dev /\ browser /\ options # <<>> /\ "error" \in options[1].levels
    IN
    /\ BagIn(d, inflight)
    /\ inflight' = inflight (-) SetToBag({d})
    /\ isSending' = FALSE
    /\ lastFailed' = IF ok THEN lastFailed ELSE d.body.entries
    /\ IF captured
       THEN CaptureThen(consoleEntry("error", FailureReport, nextId), TRUE)
       ELSE /\ batchTimer' = finallyReschedule(options, logQueue, batchTimer, now)
            /\ UNCHANGED <<logQueue, loopVars, nextId, lastLoop, emitted, summaryCount>>
    /\ UNCHANGED <<sessionId, options, patchVars, netCalls, now, lastCall, lastInit>>

-----------------------------------------------------------------------------
(* Timers of the loop detector and the clock.                              *)

\* currentSession !== sessionId
sessionChangedNever(currentSession, sid) == FALSE

sessionChanged(currentSession, sid) == currentSession # sid

\* The callback of scheduleUnsuppress's timeout.
UnsuppressFires(tm) ==
    /\ BagIn(tm, unsuppressTimers)
    /\ now >= tm.fireAt
    /\ LET rest == unsuppressTimers (-) SetToBag({tm})
           ts == IF rmHas(recentMessages, tm.key) THEN rmGet(recentMessages, tm.key)
                 ELSE <<>>
           recent == Filter(ts, now - tm.loopWindow)
       IN IF sessionChanged(tm.session, sessionId)
          THEN /\ unsuppressTimers' = rest
               /\ UNCHANGED <<recentMessages, suppressedKeys>>
          ELSE IF Len(recent) < tm.threshold
          THEN /\ suppressedKeys' = suppressedKeys \ {tm.key}
               /\ recentMessages' = rmDelete(recentMessages, tm.key)
               /\ unsuppressTimers' = rest
          ELSE /\ recentMessages' = rmSet(recentMessages, tm.key, recent)
               /\ unsuppressTimers' = scheduleUnsuppress(options, rest, tm.key, now,
                                                         sessionId)
               /\ UNCHANGED suppressedKeys
    /\ UNCHANGED <<sessionId, options, isSending, logQueue, batchTimer, patchVars,
                   inflight, netCalls, now, nextId, obsVars, histVars>>

\* Time passes.
Advance(d) ==
    /\ now + d <= 50 * MaxTicks
    /\ now' = now + d
    /\ UNCHANGED <<sessionId, options, isSending, logQueue, batchTimer, patchVars,
                   loopVars, inflight, netCalls, nextId, obsVars, histVars>>

-----------------------------------------------------------------------------
(* Network wrappers.                                                       *)

\* window.fetch(url, {method}) through the wrapper of patchFetch, up to the first
\* await.  An untracked call returns the original's promise: outcome is how that
\* promise settles.
FetchCall(method, url, outcome) ==
    /\ windowFetch = "wrapper"
    /\ IF ~isNetworkTracked(options, url)
       THEN /\ lastCall' = [prim |-> "fetch", orig |-> outcome, result |-> outcome]
            /\ UNCHANGED netCalls
       ELSE /\ BagCardinality(netCalls) < MaxNetCalls
            /\ netCalls' = netCalls (+) SetToBag({fetchCall(method, url, sessionId)})
            /\ UNCHANGED lastCall
    /\ UNCHANGED <<sessionId, options, isSending, logQueue, batchTimer, patchVars,
                   loopVars, inflight, now, nextId, lastLoop, emitted, summaryCount,
                   histVars>>

\* The original fetch of call c rejects with err: the catch branch of the wrapper.
\* err.stack.slice(0, 1000) throws when err is an Error whose stack is truthy and
\* no string, before the entry is built.
FetchRejects(c, err) ==
    /\ BagIn(c, netCalls)
    /\ c.type = "fetch" /\ c.stage = "original"
    /\ netCalls' = netCalls (-) SetToBag({c})
    /\ IF err.cls = "errorBadStack"
       THEN /\ lastCall' = [prim |-> "fetch", orig |-> "reject", result |-> "TypeError"]
            /\ UNCHANGED <<logQueue, batchTimer, loopVars, nextId, lastLoop, emitted,
                           summaryCount>>
       ELSE /\ Capture(networkEntry(c.method, c.url, 0, "error", nextId))
            /\ lastCall' = [prim |-> "fetch", orig |-> "reject", result |-> "reject"]
    /\ UNCHANGED <<sessionId, options, isSending, patchVars, inflight, now, histVars>>

\* The number of the last response that arrived among those being read.
lastArrived(calls) ==
    LET n == {c.arrived : c \in BagToSet(calls)}
    IN CHOOSE m \in n \cup {0} : \A k \in n : k <= m

\* The original fetch of call c resolves with a response of this status; the
\* wrapper goes on to readResponseBody, which returns at once without awaiting the
\* text when options is null or networkBodyLimit <= 0.
FetchResolves(c, status) ==
    /\ BagIn(c, netCalls)
    /\ c.type = "fetch" /\ c.stage = "original"
    /\ IF options = <<>> \/ options[1].networkBodyLimit <= 0
       THEN /\ netCalls' = netCalls (-) SetToBag({c})
            /\ Capture(networkEntry(c.method, c.url, status, getNetworkLevel(status),
                                    nextId))
            /\ lastCall' = [prim |-> "fetch", orig |-> "resolve", result |-> "resolve"]
       ELSE /\ netCalls' = (netCalls (-) SetToBag({c}))
                             (+) SetToBag({[c EXCEPT !.stage = "body", !.status = status,
                                                     !.arrived = 1 + lastArrived(netCalls)]})
            /\ UNCHANGED <<logQueue, batchTimer, loopVars, nextId, obsVars>>
    /\ UNCHANGED <<sessionId, options, isSending, patchVars, inflight, now, histVars>>

\* clone.text() of call c settles (a failure of the read is caught and gives no
\* body): the entry is built and the response returned.
FetchBodyRead(c) ==
    /\ BagIn(c, netCalls)
    /\ c.type = "fetch" /\ c.stage = "body"
    /\ netCalls' = netCalls (-) SetToBag({c})
    /\ Capture(networkEntry(c.method, c.url, c.status, getNetworkLevel(c.status), nextId))
    /\ lastCall' = [prim |-> "fetch", orig |-> "resolve", result |-> "resolve"]
    /\ UNCHANGED <<sessionId, options, isSending, patchVars, inflight, now, histVars>>

\* xhr.open(method, url) through the wrapper of patchXhr: xhrMeta.set, then the
\* original open.
XhrOpen(method, url) ==
    /\ xhrOpen = "wrapper"
    /\ BagCardinality(netCalls) < MaxNetCalls
    /\ netCalls' = netCalls (+) SetToBag({xhrCall(method, url, sessionId)})
    /\ lastCall' = [prim |-> "xhr.open", orig |-> "return", result |-> "return"]
    /\ UNCHANGED <<sessionId, options, isSending, logQueue, batchTimer, patchVars,
                   loopVars, inflight, now, nextId, lastLoop, emitted, summaryCount,
                   histVars>>

\* xhr.send(body) on the opened request c: through the wrapper it adds the loadend
\* listener onDone, then the original send.
XhrSend(c) ==
    /\ BagIn(c, netCalls)
    /\ c.type = "xhr" /\ c.stage = "opened"
    /\ netCalls' = (netCalls (-) SetToBag({c}))
                     (+) SetToBag({[c EXCEPT !.stage = "sent",
                                             !.listener = (xhrSend = "wrapper"),
                                             !.session = sessionId]})
    /\ lastCall' = IF xhrSend = "wrapper"
                   THEN [prim |-> "xhr.send", orig |-> "return", result |-> "return"]
                   ELSE lastCall
    /\ UNCHANGED <<sessionId, options, isSending, logQueue, batchTimer, patchVars,
                   loopVars, inflight, now, nextId, lastLoop, emitted, summaryCount,
                   histVars>>

\* loadend of the sent request c with this.status = status: onDone.
XhrLoadend(c, status) ==
    /\ BagIn(c, netCalls)
    /\ c.type = "xhr" /\ c.stage = "sent"
    /\ netCalls' = netCalls (-) SetToBag({c})
    /\ IF c.listener /\ isNetworkTracked(options, c.url)
       THEN Capture(networkEntry(c.method, c.url, status, getNetworkLevel(status), nextId))
       ELSE UNCHANGED <<logQueue, batchTimer, loopVars, nextId, lastLoop, emitted,
                        summaryCount>>
    /\ UNCHANGED <<sessionId, options, isSending, patchVars, inflight, now, lastCall,
                   histVars>>

-----------------------------------------------------------------------------
(* Global error listeners.                                                 *)

\* window dispatches "error" with event.message = message: errorHandler.
WindowError(message) ==
    /\ BagIn("error", windowListeners)
    /\ Capture(errorEntry(message, nextId))
    /\ UNCHANGED <<sessionId, options, isSending, patchVars, inflight, netCalls, now,
                   lastCall, histVars>>

\* window dispatches "unhandledrejection" with reason message: rejectionHandler.
UnhandledRejection(message) ==
    /\ BagIn("unhandledrejection", windowListeners)
    /\ Capture(errorEntry(message, nextId))
    /\ UNCHANGED <<sessionId, options, isSending, patchVars, inflight, netCalls, now,
                   lastCall, histVars>>

-----------------------------------------------------------------------------
(* Specifications.                                                         *)

CanBuild(cap) == nextId + 1 <= cap
TimeSteps == {50, 100}
Plain(m) == [first |-> <<m>>, cls |-> "plain"]
Undefined == [first |-> <<>>, cls |-> "plain"]
\* An Error whose stack is a truthy value that is no string; JSON.stringify of an
\* Error is "{}".
ErrorBadStack == [first |-> <<"{}">>, cls |-> "errorBadStack"]
ErrorObject == [first |-> <<"{}">>, cls |-> "error"]
\* An object that refers to itself: JSON.stringify throws on it, in getLoopKey
\* (caught there, the key is empty) and in sendBatch.
Circular == [first |-> <<>>, cls |-> "circular"]

-----------------------------------------------------------------------------
(* Spec: lifecycle and transport.  A host that logs while the engine is     *)
(* activated, reconfigured and restored, batches fire and requests settle.  *)

SpecOptions ==
    {[DEFAULT_OPTIONS EXCEPT !.batchSize = 2, !.levels = {"log", "error"}],
     [DEFAULT_OPTIONS EXCEPT !.batchSize = 1, !.levels = {"log"},
                             !.captureNetwork = FALSE, !.captureErrors = FALSE]}

Next ==
    \/ \E u \in SpecOptions : InitConsolebridge(u)
    \/ RestoreConsole
    \/ \E l \in {"log", "error"}, a \in {Plain("a"), ErrorBadStack},
          r \in {"return", "throw"} :
          CanBuild(MaxEvents) /\ ConsoleCall(l, a, r)
    \/ BatchTimerFires
    \/ \E d \in BagToSet(inflight), ok \in BOOLEAN : SettleDelivery(d, ok)
    \/ Advance(100)

Spec == Init /\ [][Next]_vars

-----------------------------------------------------------------------------
(* SpecNet: the network wrappers.  A host that fetches and uses XHR, logs   *)
(* errors, and whose calls complete at any later time; batchDelay is 0, so  *)
(* the clock does not matter.                                              *)

NetOptions ==
    {[DEFAULT_OPTIONS EXCEPT !.batchDelay = 0, !.levels = {"error"}],
     [DEFAULT_OPTIONS EXCEPT !.batchDelay = 0, !.levels = {},
                             !.captureNetwork = FALSE]}
NetUrls == {"/api/data", Endpoint}
NetStatuses == {200, 503}

NextNet ==
    \/ \E u \in NetOptions : InitConsolebridge(u)
    \/ RestoreConsole
    \/ BatchTimerFires
    \/ \E d \in BagToSet(inflight) : SettleDelivery(d, TRUE)
    \/ \E url \in NetUrls, r \in {"resolve", "reject"} :
          BagCardinality(netCalls) < MaxNetPending /\ FetchCall("GET", url, r)
    \/ \E c \in BagToSet(netCalls), err \in {ErrorObject, ErrorBadStack} :
          CanBuild(MaxNetEvents) /\ FetchRejects(c, err)
    \/ \E c \in BagToSet(netCalls), st \in NetStatuses :
          CanBuild(MaxNetEvents) /\ FetchResolves(c, st)
    \/ \E c \in BagToSet(netCalls) : CanBuild(MaxNetEvents) /\ FetchBodyRead(c)
    \/ \E url \in NetUrls : BagCardinality(netCalls) < MaxNetPending /\ XhrOpen("GET", url)
    \/ \E c \in BagToSet(netCalls) : XhrSend(c)
    \/ \E c \in BagToSet(netCalls), st \in NetStatuses :
          CanBuild(MaxNetEvents) /\ XhrLoadend(c, st)

SpecNet == Init /\ [][NextNet]_vars

-----------------------------------------------------------------------------
(* SpecLoop: the loop detector.  A host that repeats two messages and logs  *)
(* lines with no first argument, under the smallest thresholds.            *)

LoopOptions ==
    {[DEFAULT_OPTIONS EXCEPT !.loopThreshold = th, !.loopWindow = Num(100),
                             !.levels = {"log"}, !.captureNetwork = FALSE,
                             !.captureErrors = FALSE] : th \in {Num(1), Num(3)}}

NextLoop ==
    \/ \E u \in LoopOptions : InitConsolebridge(u)
    \/ RestoreConsole
    \/ \E a \in {Plain("a"), Undefined} :
          CanBuild(MaxLoopEvents) /\ ConsoleCall("log", a, "return")
    \/ \E tm \in BagToSet(unsuppressTimers) : UnsuppressFires(tm)
    \/ \E d \in TimeSteps : Advance(d)

SpecLoop == Init /\ [][NextLoop]_vars

-----------------------------------------------------------------------------
(* SpecBurst: one session with loopThreshold 5 and loopWindow 100, and a    *)
(* host that repeats one message.                                          *)

BurstOptions ==
    [DEFAULT_OPTIONS EXCEPT !.loopThreshold = Num(5), !.loopWindow = Num(100),
                            !.levels = {"log"}, !.captureNetwork = FALSE,
                            !.captureErrors = FALSE]

NextBurst ==
    \/ sessionId = 0 /\ InitConsolebridge(BurstOptions)
    \/ CanBuild(MaxBurstEvents) /\ ConsoleCall("log", Plain("a"), "return")
    \/ \E tm \in BagToSet(unsuppressTimers) : UnsuppressFires(tm)
    \/ \E d \in TimeSteps : Advance(d)

SpecBurst == Init /\ [][NextBurst]_vars

-----------------------------------------------------------------------------
(* SpecQueue: the outbound queue.  A host that logs many distinct lines.    *)

QueueOptions ==
    {[DEFAULT_OPTIONS EXCEPT !.batchSize = 3, !.batchDelay = 0, !.maxQueueSize = mq,
                             !.levels = {"log"}, !.captureNetwork = FALSE,
                             !.captureErrors = FALSE] : mq \in {Num(10), Num(20)}}

NextQueue ==
    \/ \E u \in QueueOptions : sessionId < MaxQueueSessions /\ InitConsolebridge(u)
    \/ sessionId < MaxQueueSessions /\ RestoreConsole
    \/ CanBuild(MaxQueueEvents) /\ ConsoleCall("log", Undefined, "return")
    \/ BatchTimerFires
    \/ \E d \in BagToSet(inflight) : SettleDelivery(d, TRUE)

SpecQueue == Init /\ [][NextQueue]_vars

-----------------------------------------------------------------------------
(* SpecStatus: the severity of network entries.  One session, a host whose  *)
(* fetch and XHR calls end with every kind of status or fail; no response   *)
(* body is kept.                                                           *)

StatusOptions ==
    [DEFAULT_OPTIONS EXCEPT !.levels = {}, !.captureErrors = FALSE, !.networkBodyLimit = 0]
Statuses == {0, 200, 399, 400, 404, 499, 500, 503}

NextStatus ==
    \/ sessionId = 0 /\ InitConsolebridge(StatusOptions)
    \/ BagCardinality(netCalls) < MaxNetPending /\ FetchCall("GET", "/api/data", "resolve")
    \/ \E c \in BagToSet(netCalls) : CanBuild(MaxStatusEvents) /\ FetchRejects(c, ErrorObject)
    \/ \E c \in BagToSet(netCalls), st \in Statuses :
          CanBuild(MaxStatusEvents) /\ FetchResolves(c, st)
    \/ BagCardinality(netCalls) < MaxNetPending /\ XhrOpen("POST", "/api/data")
    \/ \E c \in BagToSet(netCalls) : XhrSend(c)
    \/ \E c \in BagToSet(netCalls), st \in Statuses :
          CanBuild(MaxStatusEvents) /\ XhrLoadend(c, st)

SpecStatus == Init /\ [][NextStatus]_vars

-----------------------------------------------------------------------------
(* SpecFail: deliveries that fail.  A host that logs lines and errors while *)
(* console.error is wrapped, and a collector that may refuse any request.  *)

FailOptions ==
    [DEFAULT_OPTIONS EXCEPT !.batchSize = 2, !.batchDelay = 0, !.levels = {"log", "error"},
                            !.captureNetwork = FALSE, !.captureErrors = FALSE]

NextFail ==
    \/ InitConsolebridge(FailOptions)
    \/ RestoreConsole
    \/ \E l \in {"log", "error"} :
          CanBuild(MaxFailEvents) /\ ConsoleCall(l, Plain("a"), "return")
    \/ BatchTimerFires
    \/ \E d \in BagToSet(inflight), ok \in BOOLEAN : SettleDelivery(d, ok)

SpecFail == Init /\ [][NextFail]_vars

-----------------------------------------------------------------------------
(* SpecQuiet: callbacks that outlive their session.  A host that logs a     *)
(* repeated line, fetches, uses XHR and raises errors; the engine is        *)
(* restored while timers, network calls and deliveries are pending.        *)

QuietOptions ==
    [DEFAULT_OPTIONS EXCEPT !.batchSize = 1, !.batchDelay = 0, !.levels = {"log"},
                            !.loopThreshold = Num(2), !.loopWindow = Num(100)]

NextQuiet ==
    \/ options = <<>> /\ sessionId < MaxQuietSessions /\ InitConsolebridge(QuietOptions)
    \/ sessionId < MaxQuietSessions /\ RestoreConsole
    \/ CanBuild(MaxQuietEvents) /\ ConsoleCall("log", Plain("a"), "return")
    \/ BatchTimerFires
    \/ \E d \in BagToSet(inflight) : SettleDelivery(d, FALSE)
    \/ \E tm \in BagToSet(unsuppressTimers) : UnsuppressFires(tm)
    \/ Advance(100)
    \/ netCalls = EmptyBag /\ FetchCall("GET", "/api/data", "resolve")
    \/ \E c \in BagToSet(netCalls) : CanBuild(MaxQuietEvents) /\ FetchRejects(c, ErrorObject)
    \/ \E c \in BagToSet(netCalls) : CanBuild(MaxQuietEvents) /\ FetchResolves(c, 200)
    \/ \E c \in BagToSet(netCalls) : CanBuild(MaxQuietEvents) /\ FetchBodyRead(c)
    \/ netCalls = EmptyBag /\ XhrOpen("GET", "/api/data")
    \/ \E c \in BagToSet(netCalls) : XhrSend(c)
    \/ \E c \in BagToSet(netCalls) : CanBuild(MaxQuietEvents) /\ XhrLoadend(c, 200)
    \/ CanBuild(MaxQuietEvents) /\ WindowError("boom")

SpecQuiet == Init /\ [][NextQuiet]_vars

-----------------------------------------------------------------------------
(* SpecClamp: the numeric options.  A host that activates the engine with   *)
(* a loopThreshold, loopWindow or maxQueueSize of any kind.                *)

ClampValues ==
    {Num(0 - 5), Num(0), Num(1), Num(2), Num(3), Num(9), Num(10), Num(11), Num(99),
     Num(100), Num(101), Num(999), Num(1000), Num(1001), Num(9999), Num(10000),
     Num(10001), Num(59999), Num(60000), Num(60001), Frac(5, 2), Frac(0 - 1, 2),
     Frac(199, 2), Frac(19, 2), Frac(2001, 2), Frac(20001, 2), Frac(120001, 2),
     NaN, PosInfinity, NegInfinity, Missing}

ClampOptions ==
    {[DEFAULT_OPTIONS EXCEPT !.loopThreshold = v] : v \in ClampValues}
    \cup {[DEFAULT_OPTIONS EXCEPT !.loopWindow = v] : v \in ClampValues}
    \cup {[DEFAULT_OPTIONS EXCEPT !.maxQueueSize = v] : v \in ClampValues}
    \cup {[DEFAULT_OPTIONS EXCEPT !.loopThreshold = v, !.loopWindow = v,
                                  !.maxQueueSize = v] : v \in ClampValues}

NextClamp ==
    \/ \E u \in ClampOptions : InitConsolebridge(u)
    \/ RestoreConsole

SpecClamp == Init /\ [][NextClamp]_vars

-----------------------------------------------------------------------------
(* SpecOrder: concurrent network calls.  One session, a host with two       *)
(* fetches in progress at once whose responses arrive and whose bodies are  *)
(* read in any order.                                                      *)

OrderOptions ==
    [DEFAULT_OPTIONS EXCEPT !.batchDelay = 0, !.levels = {}, !.captureErrors = FALSE]
OrderUrls == {"/api/a", "/api/b"}

NextOrder ==
    \/ sessionId = 0 /\ InitConsolebridge(OrderOptions)
    \/ \E url \in OrderUrls :
          (\A c \in BagToSet(netCalls) : c.url # url) /\ FetchCall("GET", url, "resolve")
    \/ \E c \in BagToSet(netCalls) : CanBuild(MaxOrderEvents) /\ FetchRejects(c, ErrorObject)
    \/ \E c \in BagToSet(netCalls) : FetchResolves(c, 200)
    \/ \E c \in BagToSet(netCalls) : CanBuild(MaxOrderEvents) /\ FetchBodyRead(c)
    \/ BatchTimerFires
    \/ \E d \in BagToSet(inflight) : SettleDelivery(d, TRUE)

SpecOrder == Init /\ [][NextOrder]_vars

-----------------------------------------------------------------------------
(* SpecInstall: installation.  A host that activates the engine again and   *)
(* again, with and without restoring it, under configurations that differ   *)
(* in levels, captureNetwork and captureErrors, while it logs and window    *)
(* dispatches error events.                                                *)

InstallOptions ==
    {[DEFAULT_OPTIONS EXCEPT !.levels = lv, !.captureNetwork = n, !.captureErrors = e] :
        lv \in {{"log"}, {"error"}}, n \in BOOLEAN, e \in BOOLEAN}

NextInstall ==
    \/ \E u \in InstallOptions : InitConsolebridge(u)
    \/ RestoreConsole
    \/ \E l \in {"log", "error"} :
          CanBuild(MaxInstallEvents) /\ ConsoleCall(l, Plain("a"), "return")
    \/ CanBuild(MaxInstallEvents) /\ WindowError("boom")
    \/ CanBuild(MaxInstallEvents) /\ UnhandledRejection("boom")

SpecInstall == Init /\ [][NextInstall]_vars

-----------------------------------------------------------------------------
(* SpecTable: the tracking table at capacity.  A host that logs message "1"  *)
(* once or twice and then new messages, each named by the id of its entry,  *)
(* until recentMessages holds TableFill keys; from then on it logs new      *)
(* messages or "1" again, activates the engine again, time passes and       *)
(* re-checks fire.                                                         *)

TableOptions ==
    [DEFAULT_OPTIONS EXCEPT !.loopThreshold = Num(2), !.loopWindow = Num(100),
                            !.levels = {"log"}, !.captureNetwork = FALSE,
                            !.captureErrors = FALSE]

Filled == Len(recentMessages) >= TableFill

TableMessages ==
    {Plain(ToString(nextId))}
        \cup (IF (Len(recentMessages) = 1 /\ suppressedKeys = {}) \/ Filled
              THEN {Plain("1")} ELSE {})

NextTable ==
    \/ /\ sessionId = 0 \/ (Filled /\ sessionId < MaxTableSessions)
       /\ InitConsolebridge(TableOptions)
    \/ \E a \in TableMessages : CanBuild(MaxTableEvents) /\ ConsoleCall("log", a, "return")
    \/ \E tm \in BagToSet(unsuppressTimers) : Filled /\ UnsuppressFires(tm)
    \/ Filled /\ Advance(100)

SpecTable == Init /\ [][NextTable]_vars

-----------------------------------------------------------------------------
(* SpecBatch: the batch timer.  A host that logs while time passes, the     *)
(* timer fires 100 ms after it was set and requests succeed or fail.        *)

BatchOptions ==
    {[DEFAULT_OPTIONS EXCEPT !.batchSize = bs, !.batchDelay = 100, !.levels = {"log"},
                             !.captureNetwork = FALSE, !.captureErrors = FALSE] :
        bs \in {1, 2}}

NextBatch ==
    \/ \E u \in BatchOptions : sessionId < MaxBatchSessions /\ InitConsolebridge(u)
    \/ sessionId < MaxBatchSessions /\ RestoreConsole
    \/ CanBuild(MaxBatchEvents) /\ ConsoleCall("log", Undefined, "return")
    \/ BatchTimerFires
    \/ \E d \in BagToSet(inflight), ok \in BOOLEAN : SettleDelivery(d, ok)
    \/ \E d \in TimeSteps : Advance(d)

SpecBatch == Init /\ [][NextBatch]_vars

-----------------------------------------------------------------------------
(* SpecProgress: delivery of any batch under any batchSize.  One            *)
(* activation; the host logs strings and objects that refer to themselves,  *)
(* the timer fires at once and requests succeed or fail.                    *)

ProgressOptions ==
    {[DEFAULT_OPTIONS EXCEPT !.batchSize = bs, !.batchDelay = 0, !.levels = {"log"},
                             !.captureNetwork = FALSE, !.captureErrors = e] :
        bs \in {0, 1, 2}, e \in BOOLEAN}

NextProgress ==
    \/ \E u \in ProgressOptions : sessionId = 0 /\ InitConsolebridge(u)
    \/ \E a \in {Plain("a"), Circular} :
          CanBuild(MaxProgressEvents) /\ ConsoleCall("log", a, "return")
    \/ BatchTimerFires
    \/ \E d \in BagToSet(inflight), ok \in BOOLEAN : SettleDelivery(d, ok)

SpecProgress == Init /\ [][NextProgress]_vars

-----------------------------------------------------------------------------
(* Properties.                                                             *)

Ids(q) == [i \in 1..Len(q) |-> q[i].id]
IsSummary(e) == e.kind = "console" /\ e.first = <<"LOOP DETECTED">>

\* C1: at most one delivery request to the collector is in flight at any time,
\* also across restoreConsole followed by a new initConsolebridge.
C1_SingleFlight == BagCardinality(inflight) <= 1

\* C2: a network call that completes after the session identifier has changed
\* leaves recentMessages, suppressedKeys and logQueue as they are.
C2_StaleCompletionInert ==
    [][\A c \in BagToSet(netCalls) :
          (c.session # sessionId /\ netCalls' = netCalls (-) SetToBag({c}))
              => UNCHANGED <<recentMessages, suppressedKeys, logQueue>>]_vars

\* C3: a wrapper call gives its caller the outcome of the original primitive.
C3_Transparent == lastCall.result = lastCall.orig

\* C4: a delivery request goes through the saved original fetch and is never a
\* tracked call, and no request to the endpoint is tracked, counted by the loop
\* detector or turned into an entry.
C4_NoSelfObservation ==
    /\ \A d \in BagToSet(inflight) : d.via # "wrapper" /\ ~d.tracked
    /\ \A c \in BagToSet(netCalls) : c.type = "fetch" => c.url # Endpoint
    /\ \A i \in 1..Len(logQueue) :
          logQueue[i].kind = "network" => logQueue[i].url # Endpoint
    /\ \A d \in BagToSet(inflight) : \A i \in 1..Len(d.body.entries) :
          d.body.entries[i].kind = "network" => d.body.entries[i].url # Endpoint
    /\ \A i \in 1..Len(recentMessages) :
          Len(recentMessages[i].key) = 3 => recentMessages[i].key[2] # Endpoint

\* C4, reached: a delivery is in flight while window.fetch is the wrapper, and the
\* host has a tracked call of its own in progress.
C4_Witness ==
    /\ windowFetch = "wrapper"
    /\ \E d \in BagToSet(inflight) : d.via = "bound"
    /\ \E c \in BagToSet(netCalls) : c.type = "fetch"

\* C5: with loopThreshold 5, a candidate is suppressed when it is the fifth or a
\* later one of its key within loopWindow, and only then (a candidate exactly
\* loopWindow ms old counts for the second half, not for the first).
C5_LoopSuppression ==
    (lastLoop.called /\ lastLoop.active /\ lastLoop.key # <<>>) =>
        /\ lastLoop.inWindow >= 5 => lastLoop.suppress
        /\ lastLoop.suppress => lastLoop.sinceCutoff >= 5

\* C6: a candidate whose key has no entry in recentMessages, or whose key is
\* empty, is not suppressed and is appended to the queue.
C6_FirstOccurrencePasses ==
    (lastLoop.called /\ lastLoop.active /\ (~lastLoop.known \/ lastLoop.key = <<>>)) =>
        (~lastLoop.suppress /\ lastLoop.queued)

\* C6, reached: under the smallest threshold, 2, a candidate with a new key passed.
C6_Witness ==
    /\ options # <<>> /\ options[1].loopThreshold = 2
    /\ lastLoop.called /\ lastLoop.active /\ ~lastLoop.known /\ lastLoop.key # <<>>
    /\ lastLoop.queued
    /\ \E i \in 1..Len(recentMessages) : recentMessages[i].key = lastLoop.key

\* C7: a step that marks a key suppressed enqueues exactly one LOOP DETECTED entry
\* for it, a step that leaves it marked enqueues none, and the entry is a console
\* entry of level warn.
C7_OneSummaryPerEpisode ==
    [][/\ \A k \in suppressedKeys' :
             CopiesIn(k, summaryCount') =
                 CopiesIn(k, summaryCount) + (IF k \in suppressedKeys THEN 0 ELSE 1)
       /\ \A i \in 1..Len(logQueue') :
             IsSummary(logQueue'[i]) => logQueue'[i].level = "warn"]_vars

\* C7, reached: a key is in its second suppression episode, the second summary
\* still queued.
C7_Witness ==
    \E k \in suppressedKeys :
        /\ CopiesIn(k, summaryCount) = 2
        /\ \E i \in 1..Len(logQueue) : IsSummary(logQueue[i]) /\ logQueue[i].of = k

\* C8: the queue never holds more than maxQueueSize entries of the current options.
C8_QueueBounded == options # <<>> => Len(logQueue) <= options[1].maxQueueSize

\* C9: an entry enqueued when the queue holds maxQueueSize entries removes the
\* max(1, floor(maxQueueSize / 10)) oldest and goes last; below maxQueueSize
\* nothing is removed.
C9_Backpressure ==
    [][(options # <<>> /\ Len(logQueue') > 0 /\ logQueue'[Len(logQueue')].id >= nextId) =>
          LET max == options[1].maxQueueSize
              new == logQueue'[Len(logQueue')]
              evicted == IF max \div 10 > 1 THEN max \div 10 ELSE 1
          IN /\ Len(logQueue) = max =>
                   logQueue' = Append(SubSeq(logQueue, evicted + 1, Len(logQueue)), new)
             /\ Len(logQueue) < max => logQueue' = Append(logQueue, new)]_vars

\* C9, reached: with maxQueueSize 10, the eleventh entry evicted the first, and the
\* queue holds ten again.
C9_Witness ==
    /\ options # <<>> /\ options[1].maxQueueSize = 10
    /\ Ids(logQueue) = <<2, 3, 4, 5, 6, 7, 8, 9, 10, 11>>

\* C10: a delivery takes the first min(batchSize, length) entries in queue order,
\* leaves the rest in order, and sends one entry bare and any other number as a
\* batch.
C10_BatchBoundary ==
    [][\A d \in BagToSet(inflight') :
          inflight' = inflight (+) SetToBag({d}) =>
              LET m == IF options[1].batchSize < Len(logQueue)
                       THEN options[1].batchSize ELSE Len(logQueue)
              IN /\ d.body.entries = SubSeq(logQueue, 1, m)
                 /\ logQueue' = SubSeq(logQueue, m + 1, Len(logQueue))
                 /\ d.body.form = IF m = 1 THEN "single" ELSE "batch"]_vars

\* C10, reached: with batchSize 3 and seven entries queued, the second delivery
\* carries entries 4 to 6 and entry 7 stays queued.
C10_Witness ==
    /\ options # <<>> /\ options[1].batchSize = 3
    /\ Ids(logQueue) = <<7>>
    /\ \E d \in BagToSet(inflight) : Ids(d.body.entries) = <<4, 5, 6>>
    /\ nextId = 8

\* C11: a network entry has level error when its status is 0 or at least 500, warn
\* when it is 400 to 499 and network otherwise, and a fetch that rejects enqueues an
\* entry of status 0 and level error.
C11_SeverityEscalation ==
    [][/\ \A i \in 1..Len(logQueue') :
             logQueue'[i].kind = "network" =>
                 LET st == logQueue'[i].status
                 IN logQueue'[i].level =
                        CASE st = 0 -> "error"
                          [] st >= 500 -> "error"
                          [] st >= 400 /\ st <= 499 -> "warn"
                          [] OTHER -> "network"
       /\ (lastCall'.prim = "fetch" /\ lastCall'.orig = "reject"
              /\ \E c \in BagToSet(netCalls) :
                    /\ c.type = "fetch" /\ c.stage = "original"
                    /\ netCalls' = netCalls (-) SetToBag({c})) =>
             /\ Len(logQueue') = Len(logQueue) + 1
             /\ logQueue'[Len(logQueue')].kind = "network"
             /\ logQueue'[Len(logQueue')].status = 0
             /\ logQueue'[Len(logQueue')].level = "error"]_vars

\* C11, reached: the queue holds the entry of a 404 (warn) and the entry of a fetch
\* that was rejected (status 0, error).
C11_Witness ==
    /\ Len(logQueue) = 2
    /\ logQueue[1].status = 404 /\ logQueue[1].level = "warn"
    /\ logQueue[2].status = 0 /\ logQueue[2].level = "error"
    /\ lastCall.prim = "fetch" /\ lastCall.orig = "reject"

\* C12: a restoreConsole call that follows a restoreConsole call changes nothing
\* but the session counter, and after it console.log/warn/error/info/debug,
\* window.fetch and XMLHttpRequest.prototype.open/send are the values they had
\* before the first activation.
C12_IdempotentTeardown ==
    [][(options = <<>> /\ sessionId > 0 /\ options' = <<>> /\ sessionId' # sessionId) =>
          /\ UNCHANGED <<isSending, logQueue, batchTimer, patchVars, loopVars, inflight,
                         netCalls, nextId>>
          /\ \A l \in Levels : consoleFn'[l] = "native"
          /\ windowFetch' = "native"
          /\ xhrOpen' = "native"
          /\ xhrSend' = "native"]_vars

\* C13: once initConsolebridge ran with captureNetwork false, window.fetch and the
\* XHR open / send are the saved originals and no network entry is enqueued; once
\* it ran with captureErrors false, no listener is registered and no error entry
\* is enqueued.
C13_ReconfigurationDisables ==
    [][/\ (options' # <<>> /\ ~options'[1].captureNetwork) =>
             /\ windowFetch' = (IF originalFetch' # "null" THEN originalFetch' ELSE "native")
             /\ xhrOpen' = "native"
             /\ xhrSend' = "native"
       /\ (options' # <<>> /\ ~options'[1].captureErrors) => windowListeners' = EmptyBag
       /\ (options # <<>> /\ options' = options /\ ~options[1].captureNetwork) =>
             \A i \in 1..Len(logQueue') :
                 logQueue'[i].kind = "network" =>
                     \E j \in 1..Len(logQueue) : logQueue[j] = logQueue'[i]
       /\ (options # <<>> /\ options' = options /\ ~options[1].captureErrors) =>
             \A i \in 1..Len(logQueue') :
                 logQueue'[i].kind = "error" =>
                     \E j \in 1..Len(logQueue) : logQueue[j] = logQueue'[i]]_vars

Quiescent ==
    /\ logQueue = <<>>
    /\ batchTimer = NoTimer
    /\ recentMessages = <<>>
    /\ suppressedKeys = {}
    /\ \A l \in Levels : consoleFn[l] # "wrapper"
    /\ windowFetch # "wrapper"
    /\ xhrOpen # "wrapper"
    /\ xhrSend # "wrapper"
    /\ windowListeners = EmptyBag

\* C14: while options is null (from restoreConsole to the next initConsolebridge)
\* the queue and both loop tables are empty, no batch timer is pending, no wrapper
\* or listener is installed, and no step starts a delivery.
C14_RestoreQuiescent ==
    [][/\ options = <<>> => Quiescent
       /\ options' = <<>> => Quiescent'
       /\ (options = <<>> /\ options' = <<>>) =>
             \A d \in BagToSet(inflight') : CopiesIn(d, inflight') <= CopiesIn(d, inflight)]_vars

\* C14, reached: after restoreConsole, a network call of the old session completed
\* and a delivery of the old session failed, and the engine is still at rest.
C14_Witness ==
    /\ options = <<>> /\ sessionId > 0
    /\ lastLoop.called /\ ~lastLoop.active
    /\ lastFailed # <<>>
    /\ inflight = EmptyBag /\ netCalls = EmptyBag
    /\ Quiescent

\* C15: an initConsolebridge call made while a session is active leaves the queue
\* empty, no batch timer pending and both loop tables empty.
C15_SupersedeDestroys ==
    [][(options # <<>> /\ options' # <<>> /\ sessionId' # sessionId) =>
          /\ logQueue' = <<>>
          /\ batchTimer' = NoTimer
          /\ recentMessages' = <<>>
          /\ suppressedKeys' = {}]_vars

FailedBatchGone ==
    \A i \in 1..Len(lastFailed) :
        /\ \A j \in 1..Len(logQueue) : logQueue[j].id # lastFailed[i].id
        /\ \A d \in BagToSet(inflight) : \A j \in 1..Len(d.body.entries) :
              d.body.entries[j].id # lastFailed[i].id

\* C16: the entries of a delivery that failed are never in the queue nor in a
\* later request, and the step in which a delivery settles (the failure report
\* included) builds no entry, enqueues nothing and leaves the loop tables alone,
\* also while console.error is wrapped and the level error is captured.
C16_FailureAbsorbed ==
    [][/\ FailedBatchGone'
       /\ (\E d \in BagToSet(inflight) : inflight' = inflight (-) SetToBag({d})) =>
             /\ logQueue' = logQueue
             /\ UNCHANGED loopVars
             /\ nextId' = nextId]_vars

\* C16, reached: a delivery failed while console.error is wrapped and captured,
\* later entries are queued and a later request is in flight.
C16_Witness ==
    /\ lastFailed # <<>>
    /\ options # <<>> /\ "error" \in options[1].levels /\ consoleFn["error"] = "wrapper"
    /\ logQueue # <<>>
    /\ inflight # EmptyBag

\* r is the value v.num / v.den rounded down and brought into min..max.
IsClampOf(r, v, min, max) ==
    \/ r = min /\ v.num < (min + 1) * v.den
    \/ r = max /\ v.num >= max * v.den
    \/ min < r /\ r < max /\ r * v.den <= v.num /\ v.num < (r + 1) * v.den

\* C17: after initConsolebridge, loopThreshold is in 2..1000, loopWindow in
\* 100..60000 and maxQueueSize in 10..10000; a finite value is rounded down and
\* clamped, a value that is NaN, infinite or missing gives 10, 5000 and 200.
C17_Clamping ==
    options # <<>> =>
        LET o == options[1]
            u == lastInit[1]
        IN /\ o.loopThreshold \in 2..1000
           /\ o.loopWindow \in 100..60000
           /\ o.maxQueueSize \in 10..10000
           /\ IF u.loopThreshold.kind = "num"
              THEN IsClampOf(o.loopThreshold, u.loopThreshold, 2, 1000)
              ELSE o.loopThreshold = 10
           /\ IF u.loopWindow.kind = "num"
              THEN IsClampOf(o.loopWindow, u.loopWindow, 100, 60000)
              ELSE o.loopWindow = 5000
           /\ IF u.maxQueueSize.kind = "num"
              THEN IsClampOf(o.maxQueueSize, u.maxQueueSize, 10, 10000)
              ELSE o.maxQueueSize = 200

\* C17, reached: initConsolebridge({loopThreshold: -0.5, loopWindow: -0.5,
\* maxQueueSize: -0.5}) gave 2, 100 and 10.
C17_Witness ==
    /\ options # <<>>
    /\ lastInit[1].loopThreshold = Frac(0 - 1, 2) /\ options[1].loopThreshold = 2
    /\ lastInit[1].loopWindow = Frac(0 - 1, 2) /\ options[1].loopWindow = 100
    /\ lastInit[1].maxQueueSize = Frac(0 - 1, 2) /\ options[1].maxQueueSize = 10

\* C18: the entry of a fetch is enqueued before the entry of any fetch whose
\* response arrived later, whatever the time the bodies take to read, and a
\* delivery carries the first entries of the queue in queue order.
C18_CompletionOrder ==
    [][/\ \A c \in BagToSet(netCalls) :
             (c.stage = "body" /\ netCalls' = netCalls (-) SetToBag({c})
                /\ Len(logQueue') > Len(logQueue)) =>
                 \A c2 \in BagToSet(netCalls) : c2.stage = "body" => c2.arrived >= c.arrived
       /\ \A d \in BagToSet(inflight') :
             inflight' = inflight (+) SetToBag({d}) =>
                 d.body.entries = SubSeq(logQueue, 1, Len(d.body.entries))]_vars

\* C19: a candidate is either suppressed and not in the queue, or not suppressed
\* and appended to the queue; no entry is twice in the queue, and no entry is in
\* two delivery requests or both queued and sent.
C19_SuppressedOrQueuedOnce ==
    /\ lastLoop.called =>
          \/ lastLoop.suppress /\ ~lastLoop.queued
          \/ ~lastLoop.suppress /\ lastLoop.queued
    /\ \A i, j \in 1..Len(logQueue) : i # j => logQueue[i].id # logQueue[j].id
    /\ \A d \in BagToSet(inflight) :
          /\ CopiesIn(d, inflight) = 1
          /\ \A i \in 1..Len(d.body.entries) :
                /\ \A j \in 1..Len(logQueue) : logQueue[j].id # d.body.entries[i].id
                /\ \A d2 \in BagToSet(inflight) \ {d} : \A j \in 1..Len(d2.body.entries) :
                      d2.body.entries[j].id # d.body.entries[i].id

\* C20: the caller of a wrapper gets the outcome of the original primitive, and an
\* entry of status 0 is enqueued only for a fetch that was rejected or a request
\* that ended with status 0.
C20_CaptureFailuresAbsorbed ==
    [][/\ lastCall'.result = lastCall'.orig
       /\ \A i \in 1..Len(logQueue') :
             (logQueue'[i].kind = "network" /\ logQueue'[i].status = 0
                /\ logQueue'[i].id >= nextId) =>
                 \E c \in BagToSet(netCalls) :
                     /\ netCalls' = netCalls (-) SetToBag({c})
                     /\ \/ c.type = "xhr"
                        \/ c.stage = "original" /\ lastCall'.orig \in {"reject", "resolve"}]_vars

\* C23: when a delivery of an earlier session settles while the engine is active
\* and a delivery of the current session is in flight, the sending flag and the
\* batch timer stay as they are.
C23_StaleSettlementInert ==
    [][\A d \in BagToSet(inflight) :
          (/\ options # <<>>
           /\ d.session # sessionId
           /\ \E d2 \in BagToSet(inflight) : d2.session = sessionId
           /\ inflight' = inflight (-) SetToBag({d}))
              => UNCHANGED <<isSending, batchTimer>>]_vars

\* C24: while the engine is active, the console functions replaced by a wrapper
\* are exactly the levels of the current configuration.
C24_WrappedExactlyLevels ==
    options # <<>> =>
        \A l \in Levels : (consoleFn[l] = "wrapper") <=> (l \in options[1].levels)

\* C22: a re-check timer that fires in a session other than the one that scheduled
\* it is only removed: recentMessages and suppressedKeys stay as they are and no
\* timer is scheduled.
C22_StaleRecheckInert ==
    [][\A tm \in BagToSet(unsuppressTimers) :
          (/\ tm.session # sessionId
           /\ CopiesIn(tm, unsuppressTimers') < CopiesIn(tm, unsuppressTimers))
              => /\ unsuppressTimers' = unsuppressTimers (-) SetToBag({tm})
                 /\ UNCHANGED <<recentMessages, suppressedKeys>>]_vars

\* C22, reached: the engine is active, a key is still marked suppressed and its
\* entry still in the table after the only pending re-check, one of an earlier
\* session, has fired.
C22_Witness ==
    /\ options # <<>>
    /\ unsuppressTimers = EmptyBag
    /\ \E k \in suppressedKeys : rmHas(recentMessages, k)

\* C26: after a candidate with a key was checked, the timestamps kept for the key
\* are the last min(n, 2 * loopThreshold) of the pruned timestamps followed by the
\* new one, n being their number.
C26_TimestampCap ==
    [][(nextId' # nextId /\ lastLoop'.called /\ lastLoop'.active
            /\ lastLoop'.key # <<>>) =>
          LET key == lastLoop'.key
              old == IF rmHas(recentMessages, key) THEN rmGet(recentMessages, key)
                     ELSE <<>>
              pushed == Append(PruneOld(old, now - options[1].loopWindow), now)
              n == Len(pushed)
              kept == Min2(n, 2 * options[1].loopThreshold)
          IN /\ rmHas(recentMessages', key)
             /\ rmGet(recentMessages', key) = Drop(pushed, n - kept)]_vars

\* C21: while the engine is active, every suppressed key has a pending re-check
\* that will act on it, one scheduled in the current session; without one, no
\* re-check ever removes the key.
C21_SuppressionEnds ==
    options # <<>> =>
        \A k \in suppressedKeys :
            \E tm \in BagToSet(unsuppressTimers) : tm.key = k /\ tm.session = sessionId

\* C25: whatever the sequence of initConsolebridge and restoreConsole calls, the
\* saved network originals are the true originals, never a wrapper, an installed
\* network wrapper has its original saved, the console wrappers delegate to the
\* true console functions, and window holds at most one error listener and at
\* most one unhandledrejection listener of the engine.
C25_NoDoubleInstall ==
    /\ originalFetch \in {"null", "bound"}
    /\ originalXhrOpen \in {"null", "native"}
    /\ originalXhrSend \in {"null", "native"}
    /\ windowFetch = "wrapper" => originalFetch = "bound"
    /\ xhrOpen = "wrapper" => originalXhrOpen = "native"
    /\ xhrSend = "wrapper" => originalXhrSend = "native"
    /\ \A l \in Levels : originalConsole[l] = "native"
    /\ CopiesIn("error", windowListeners) <= 1
    /\ CopiesIn("unhandledrejection", windowListeners) <= 1
    /\ errorListenersAttached <=> BagIn("error", windowListeners)

\* C25, reached: the third activation in a row, none restored in between, has the
\* network wrappers and the listeners installed, and an error event was captured.
C25_Witness ==
    /\ sessionId = 3 /\ isInitialized
    /\ networkPatched /\ windowFetch = "wrapper" /\ xhrSend = "wrapper"
    /\ CopiesIn("error", windowListeners) = 1
    /\ \E i \in 1..Len(logQueue) : logQueue[i].kind = "error" /\ logQueue[i].id = 1

\* C27: recentMessages never holds more than 100 keys and every suppressed key
\* has an entry in it; a candidate with a new key that finds 100 keys removes
\* the first of them, the oldest inserted, and its suppressed mark, and nothing
\* else.
C27_TableBounded ==
    /\ [](/\ Len(recentMessages) <= MaxTrackedKeys
          /\ \A k \in suppressedKeys : rmHas(recentMessages, k))
    /\ [][(/\ nextId' # nextId /\ lastLoop'.called /\ lastLoop'.active
           /\ lastLoop'.key # <<>>
           /\ ~rmHas(recentMessages, lastLoop'.key)
           /\ Len(recentMessages) = MaxTrackedKeys) =>
              /\ Len(recentMessages') = MaxTrackedKeys
              /\ \A i \in 1..(MaxTrackedKeys - 1) : recentMessages'[i] = recentMessages[i + 1]
              /\ recentMessages'[MaxTrackedKeys].key = lastLoop'.key
              /\ suppressedKeys' = suppressedKeys \ {recentMessages[1].key}]_vars

\* C27, reached: the table is full and message "1", suppressed before, has lost
\* its entry and its mark to a new key while its re-check is still pending.
C27_Witness ==
    /\ now = 0 /\ sessionId = 1
    /\ Len(recentMessages) = MaxTrackedKeys
    /\ CopiesIn(<<"1">>, summaryCount) = 1
    /\ <<"1">> \notin suppressedKeys
    /\ ~rmHas(recentMessages, <<"1">>)
    /\ \E tm \in BagToSet(unsuppressTimers) : tm.key = <<"1">>

\* C28: a step that enqueues while a batch timer is pending leaves the timer as it
\* is, and the step in which the timer fires starts at most one delivery, which
\* carries what was enqueued since the timer was set, up to batchSize entries.
C28_BatchCoalescing ==
    [][/\ (batchTimer # NoTimer /\ nextId' # nextId /\ inflight' = inflight
               /\ isSending' = isSending)
           => batchTimer' = batchTimer
       /\ (batchTimer # NoTimer /\ batchTimer' = NoTimer /\ sessionId' = sessionId)
           => /\ now >= batchTimer
              /\ \/ inflight' = inflight /\ logQueue' = logQueue
                 \/ \E d \in BagToSet(inflight') :
                       /\ inflight' = inflight (+) SetToBag({d})
                       /\ d.body.entries = Take(logQueue, options[1].batchSize)
                       /\ logQueue' = Drop(logQueue, options[1].batchSize)]_vars

\* C28, reached: two entries enqueued 50 ms apart under one timer went out in one
\* request when it fired.
C28_Witness ==
    /\ now = 100 /\ batchTimer = NoTimer /\ isSending
    /\ \E d \in BagToSet(inflight) :
          /\ d.session = sessionId
          /\ Len(d.body.entries) = 2

\* C29: while the engine is active, the queue is not empty and no delivery is in
\* progress, a batch timer is pending.
C29_NoLostWakeup ==
    (options # <<>> /\ Len(logQueue) > 0 /\ ~isSending) => batchTimer # NoTimer

\* C29, reached: a delivery failed while the queue held an entry that had found
\* the engine sending, and a new timer is pending.
C29_Witness ==
    /\ options # <<>> /\ ~isSending /\ inflight = EmptyBag
    /\ Len(lastFailed) > 0
    /\ Len(logQueue) > 0 /\ batchTimer = now + 100
    /\ now > 0

\* C30: the sending flag is set only while a started request has not settled, so
\* that the settling clears it, and a step that starts a request takes at least
\* one entry out of the queue.
C30_DeliveryProgress ==
    /\ [](isSending => inflight # EmptyBag)
    /\ [][(BagCardinality(inflight') > BagCardinality(inflight))
              => Len(logQueue') < Len(logQueue)]_vars
====
